---- MODULE Spec2Model ----
(***************************************************************************)
(* Model of worker.go: the map/reduce task executors of a single-process   *)
(* MapReduce run.  main builds M map tasks and R reduce tasks, calls       *)
(* MapTask.Process on each map task (which spawns a scanning goroutine     *)
(* that in turn spawns one inserting goroutine per input row), then calls  *)
(* ReduceTask.Process on each reduce task, and returns.                    *)
(*                                                                         *)
(* Strings are sequences of byte values, so that tokenising, hashing,      *)
(* Atoi/Itoa and key comparison are computed, not assumed.                 *)
(***************************************************************************)
EXTENDS Integers, Sequences, FiniteSets, Bags, TLC

\* ---------------------------------------------------------------- bounds
MaxM == 2        \* largest number of map tasks
MaxR == 2        \* largest number of reduce tasks
MaxRows == 2     \* largest number of rows in the whole input corpus

\* ------------------------------------------------------- strings as bytes
IsSpace(c) == c \in {9, 10, 11, 12, 13, 32}
IsDigit(c) == c \in 48..57
IsUpper(c) == c \in 65..90
IsLetter(c) == c \in 65..90 \/ c \in 97..122
ToLower(c) == IF IsUpper(c) THEN c + 32 ELSE c

\* strings.Fields: the maximal runs of non-space bytes, in order.
RECURSIVE FieldsFrom(_, _, _)
FieldsFrom(s, i, cur) ==
  IF i > Len(s) THEN (IF cur = <<>> THEN <<>> ELSE <<cur>>)
  ELSE IF IsSpace(s[i])
       THEN (IF cur = <<>> THEN <<>> ELSE <<cur>>) \o FieldsFrom(s, i + 1, <<>>)
       ELSE FieldsFrom(s, i + 1, Append(cur, s[i]))

Fields(s) == FieldsFrom(s, 1, <<>>)

\* The strings.Map callback of Client.Map: letters and digits are kept,
\* lower-cased; every other rune is dropped.
RECURSIVE CleanWord(_)
CleanWord(w) ==
  IF w = <<>> THEN <<>>
  ELSE IF IsLetter(Head(w)) \/ IsDigit(Head(w))
       THEN <<ToLower(Head(w))>> \o CleanWord(Tail(w))
       ELSE CleanWord(Tail(w))

One == <<49>>    \* the string "1"

RECURSIVE EmitWords(_)
EmitWords(lst) ==
  IF lst = <<>> THEN <<>>
  ELSE LET word == CleanWord(Head(lst))
       IN (IF Len(word) > 0 THEN <<[Key |-> word, Value |-> One]>> ELSE <<>>)
          \o EmitWords(Tail(lst))

\* Client.Map: the pairs sent on the output channel, in order.
ClientMap(value) == EmitWords(Fields(value))

\* MapTask.Process takes any implementation of Interface.  Beside Client,
\* "Failing" stands for the implementations whose values are not numbers
\* and whose Map reports an error: it sends (word, word) for every word
\* Client would send, closes the channel and returns an error.
RECURSIVE EchoWords(_)
EchoWords(ps) ==
  IF ps = <<>> THEN <<>>
  ELSE <<[Key |-> Head(ps).Key, Value |-> Head(ps).Key]>> \o EchoWords(Tail(ps))

Clients == {"Client", "Failing"}

\* The pairs Map of implementation cl sends for value, and what it returns.
MapPairs(cl, value) ==
  IF cl = "Client" THEN ClientMap(value) ELSE EchoWords(ClientMap(value))

MapResult(cl) == IF cl = "Client" THEN "nil" ELSE "error"

\* strconv.Atoi: an optional sign followed by one or more decimal digits.
\* The result is <<ok, n>>; ok is FALSE for the syntax error.
RECURSIVE DigitsFrom(_, _, _)
DigitsFrom(s, i, acc) ==
  IF i > Len(s) THEN <<TRUE, acc>>
  ELSE IF IsDigit(s[i]) THEN DigitsFrom(s, i + 1, acc * 10 + (s[i] - 48))
       ELSE <<FALSE, 0>>

Atoi(s) ==
  IF s = <<>> THEN <<FALSE, 0>>
  ELSE IF s[1] \in {43, 45}
       THEN IF Len(s) = 1 THEN <<FALSE, 0>>
            ELSE LET d == DigitsFrom(s, 2, 0)
                 IN IF s[1] = 45 THEN <<d[1], 0 - d[2]>> ELSE d
       ELSE DigitsFrom(s, 1, 0)

\* strconv.Itoa.
RECURSIVE ItoaNat(_)
ItoaNat(n) ==
  IF n < 10 THEN <<48 + n>> ELSE Append(ItoaNat(n \div 10), 48 + (n % 10))

Itoa(n) == IF n < 0 THEN <<45>> \o ItoaNat(0 - n) ELSE ItoaNat(n)

\* Client.Reduce: <<ok, pairs>>: the error flag and the pairs sent on the
\* output channel.  A value that does not parse returns the error before
\* anything is sent.
RECURSIVE SumValues(_, _)
SumValues(values, count) ==
  IF values = <<>> THEN <<TRUE, count>>
  ELSE LET i == Atoi(Head(values))
       IN IF ~i[1] THEN <<FALSE, 0>> ELSE SumValues(Tail(values), count + i[2])

ClientReduce(key, values) ==
  LET c == SumValues(values, 0)
  IN IF ~c[1] THEN <<FALSE, <<>>>>
     ELSE <<TRUE, <<[Key |-> key, Value |-> Itoa(c[2])]>>>>

\* ------------------------------------------------------------ partitioner
\* hash/fnv New32 is 32-bit FNV-1.  The 32-bit state is kept as two 16-bit
\* halves <<hi, lo>> so that h * 16777619 mod 2^32 is computed exactly:
\* 16777619 = 2^24 + 403.
RECURSIVE Xor8(_, _, _)
Xor8(a, b, n) ==
  IF n = 0 THEN 0
  ELSE ((a + b) % 2) + 2 * Xor8(a \div 2, b \div 2, n - 1)

FnvOffsetHi == 33052     \* 0x811C
FnvOffsetLo == 40389     \* 0x9DC5
FnvPrimeLo == 403        \* 0x0193, low part of 16777619 = 0x01000193

FnvStep(h, byte) ==
  LET p   == h[2] * FnvPrimeLo
      lo  == p % 65536
      hi  == (h[1] * FnvPrimeLo + (p \div 65536) + (h[2] % 256) * 256) % 65536
  IN <<hi, (lo \div 256) * 256 + Xor8(lo % 256, byte, 8)>>

RECURSIVE FnvWrite(_, _)
FnvWrite(h, bytes) ==
  IF bytes = <<>> THEN h ELSE FnvWrite(FnvStep(h, Head(bytes)), Tail(bytes))

Sum32(key) == FnvWrite(<<FnvOffsetHi, FnvOffsetLo>>, key)

\* partition with the modulus off by one.
partitionOffByOne(key, nR) ==
  LET h == Sum32(key)
  IN (((h[1] % (nR + 1)) * (65536 % (nR + 1))) + (h[2] % (nR + 1))) % (nR + 1)

\* int(hash.Sum32() % uint32(R)) for R > 0.
partition(key, nR) ==
  LET h == Sum32(key)
  IN (((h[1] % nR) * (65536 % nR)) + (h[2] % nR)) % nR

\* BucketOf with the map task number mixed into the bucket.
BucketOfByTask(n, pair, nR) == (partition(pair.Key, nR) + n) % nR

\* The bucket InsertPair writes pair to when called for map task n.
BucketOf(n, pair, nR) == partition(pair.Key, nR)

\* ------------------------------------------------------------ file naming
mapSourceFile(m) == <<"map_source", m>>
mapOutputFile(m, r) == <<"map_output", m, r>>
reduceOutputFile(r) == <<"reduce_output", r>>

the_address == "host:8080"
makeURL(host, file) == <<host, file>>

\* --------------------------------------------------------- ordered store
RECURSIVE BytesLess(_, _)
BytesLess(a, b) ==
  IF b = <<>> THEN FALSE
  ELSE IF a = <<>> THEN TRUE
  ELSE IF Head(a) # Head(b) THEN Head(a) < Head(b)
  ELSE BytesLess(Tail(a), Tail(b))

PairLess(p, q) ==
  BytesLess(p.Key, q.Key) \/ (p.Key = q.Key /\ BytesLess(p.Value, q.Value))

RECURSIVE InsertSorted(_, _)
InsertSorted(p, s) ==
  IF s = <<>> THEN <<p>>
  ELSE IF PairLess(Head(s), p) THEN <<Head(s)>> \o InsertSorted(p, Tail(s))
  ELSE <<p>> \o s

\* ScanOrdered: the pairs of a store sorted by key, then value.
RECURSIVE ScanOrdered(_)
ScanOrdered(s) ==
  IF s = <<>> THEN <<>> ELSE InsertSorted(Head(s), ScanOrdered(Tail(s)))

\* ------------------------------------------------------------ merge engine
\* k-way merge: one cursor per source; the smallest current key among the
\* live cursors is emitted and its cursor advanced, until all are exhausted.
Live(srcs) == {i \in 1..Len(srcs) : srcs[i] # <<>>}

Smallest(srcs) ==
  CHOOSE i \in Live(srcs) :
    \A j \in Live(srcs) :
      \/ BytesLess(Head(srcs[i]).Key, Head(srcs[j]).Key)
      \/ (~BytesLess(Head(srcs[j]).Key, Head(srcs[i]).Key) /\ i <= j)

RECURSIVE KWayMerge(_)
KWayMerge(srcs) ==
  IF Live(srcs) = {} THEN <<>>
  ELSE LET i == Smallest(srcs)
       IN <<Head(srcs[i])>> \o KWayMerge([srcs EXCEPT ![i] = Tail(srcs[i])])

\* mergeDatabases: every source is read in key order and merged.
mergeDatabases(sources) ==
  KWayMerge([i \in 1..Len(sources) |-> ScanOrdered(sources[i])])

\* ------------------------------------------------------------------ state
VARIABLES
  client,        \* the Interface implementation passed to Process
  M, R,          \* main's m and r: the numbers of map and reduce tasks
  proc,          \* "running", or how the process ended
  tempdir,       \* the served directory: file name -> stored pairs or rows
  mainPc,        \* main's position: "map" (before a MapTask.Process),
                 \* "mapret" (inside it), "reduce"
  mainI,         \* index of the task main is processing
  input,         \* per map task: how Process obtained its local input
  rows,          \* per map task: the rows its query returns
  rowIdx,        \* per map task: number of rows the scan has taken
  scanPc,        \* per map task: position of the scanning goroutine
  pending,       \* per map task: pairs Map has still to send for the row
  ins,           \* per map task: one inserting goroutine per scanned row
  err,           \* per map task: the err variable shared with goroutines
  ret,           \* per map task: what Process returned
  taskM,         \* per map task: the M field of the MapTask
  sourceHosts,   \* per reduce task: SourceHosts
  fetched,       \* per reduce task: the sources downloaded so far
  reduceInput,   \* per reduce task: the merged input store, once built
  reduceCalls    \* the Reduce invocations made so far

vars == <<client, M, R, proc, tempdir, mainPc, mainI, input, rows, rowIdx, scanPc,
          pending, ins, err, ret, taskM, sourceHosts, fetched, reduceInput,
          reduceCalls>>

mapVars == <<input, rows, rowIdx, scanPc, pending, ins, err, ret, taskM>>
reduceVars == <<sourceHosts, fetched, reduceInput, reduceCalls>>

MapIds == 0..(M - 1)
ReduceIds == 0..(R - 1)

NoPair == [Key |-> <<>>, Value |-> <<>>]

Exists(name) == name \in DOMAIN tempdir

\* ----------------------------------------------------------------- inputs
T_a == <<97>>                  \* "a"
T_bA == <<98, 32, 65, 46>>     \* "b A."
T_bang == <<33>>               \* "!"

\* The values a row of the corpus may hold.
Texts == {T_bA}

\* "the cat sat. The CAT sat!"
T_wordcount ==
  <<116, 104, 101, 32, 99, 97, 116, 32, 115, 97, 116, 46, 32,
    84, 104, 101, 32, 67, 65, 84, 32, 115, 97, 116, 33>>

SeqsUpTo(S, n) == UNION {[1..k -> S] : k \in 0..n}

RECURSIVE TotalRows(_, _)
TotalRows(sh, n) == IF n = 0 THEN 0 ELSE Len(sh[n - 1]) + TotalRows(sh, n - 1)

\* splitDatabase: the corpus rows spread over the M source shards.
Shardings(nM) ==
  {sh \in [0..(nM - 1) -> SeqsUpTo(Texts, MaxRows)] : TotalRows(sh, nM) <= MaxRows}

\* What an input file left by an earlier run may hold.
StaleInputs == {<<T_bang>>}

InitTasks(cl, nM, nR, sh) ==
  /\ client = cl
  /\ M = nM
  /\ R = nR
  /\ proc = "running"
  /\ tempdir = [f \in {mapSourceFile(n) : n \in 0..(nM - 1)} |-> sh[f[2]]]
  /\ mainPc = (IF nM = 0 THEN "reduce" ELSE "map")
  /\ mainI = 0
  /\ input = [n \in 0..(nM - 1) |-> "none"]
  /\ rows = [n \in 0..(nM - 1) |-> <<>>]
  /\ rowIdx = [n \in 0..(nM - 1) |-> 0]
  /\ scanPc = [n \in 0..(nM - 1) |-> "idle"]
  /\ pending = [n \in 0..(nM - 1) |-> <<>>]
  /\ ins = [n \in 0..(nM - 1) |-> <<>>]
  /\ err = [n \in 0..(nM - 1) |-> "nil"]
  /\ ret = [n \in 0..(nM - 1) |-> "none"]
  /\ taskM = [n \in 0..(nM - 1) |-> nM]
  /\ sourceHosts = [j \in 0..(nR - 1) |-> [n \in 0..(nM - 1) |-> ""]]
  /\ fetched = [j \in 0..(nR - 1) |-> <<>>]
  /\ reduceInput = [j \in 0..(nR - 1) |-> <<>>]
  /\ reduceCalls = <<>>

Init ==
  \/ \E cl \in Clients, nM \in 0..MaxM, nR \in 0..MaxR :
       \E sh \in Shardings(nM) : InitTasks(cl, nM, nR, sh)
  \/ InitTasks("Client", 1, 1, [n \in {0} |-> <<T_wordcount>>])
  \/ InitTasks("Client", 1, 4, [n \in {0} |-> <<T_a>>])

\* ------------------------------------------------------- MapTask.Process
\* SourceOf with the task number ignored.
SourceOfFirst(n) == mapSourceFile(0)

\* The source file Process downloads for map task n.
SourceOf(n) == mapSourceFile(n)

\* rows.Next(): whether the scan of map task n has another row.
HasNext(n) == rowIdx[n] < Len(rows[n])

\* Process up to the go statement: download (a failure is only logged),
\* openDatabase, the select query, and the start of the scanning goroutine.
\* With the download done the query returns the rows of the source shard;
\* with the download failed it returns those of an older local input file.
MapProcessStart(n) ==
  /\ proc = "running" /\ mainPc = "map" /\ mainI = n /\ n < M
  /\ \E how \in {"fresh", "stale"} :
       /\ input' = [input EXCEPT ![n] = how]
       /\ IF how = "fresh"
          THEN /\ Exists(SourceOf(n))
               /\ rows' = [rows EXCEPT ![n] = tempdir[SourceOf(n)]]
          ELSE \E old \in StaleInputs : rows' = [rows EXCEPT ![n] = old]
  /\ err' = [err EXCEPT ![n] = "nil"]
  /\ scanPc' = [scanPc EXCEPT ![n] = "next"]
  /\ mainPc' = "mapret"
  /\ UNCHANGED <<client, M, R, proc, tempdir, mainI, rowIdx, pending, ins, ret, taskM>>
  /\ UNCHANGED reduceVars

\* openDatabase or the query fails: Process returns the error and main
\* stops the process with log.Fatalf.
MapProcessFail(n) ==
  /\ proc = "running" /\ mainPc = "map" /\ mainI = n /\ n < M
  /\ input' = [input EXCEPT ![n] = "unreadable"]
  /\ err' = [err EXCEPT ![n] = "error"]
  /\ ret' = [ret EXCEPT ![n] = "error"]
  /\ proc' = "fatal"
  /\ UNCHANGED <<client, M, R, tempdir, mainPc, mainI, rows, rowIdx, scanPc, pending,
                 ins, taskM>>
  /\ UNCHANGED reduceVars

\* return err, then the body of main's loop: the address of the map worker
\* is recorded in every reduce task; after the last map task main goes on
\* to the reduce tasks.
MapProcessReturn(n) ==
  /\ proc = "running" /\ mainPc = "mapret" /\ mainI = n
  /\ ret' = [ret EXCEPT ![n] = err[n]]
  /\ IF err[n] = "nil"
     THEN /\ sourceHosts' = [j \in ReduceIds |->
                               [sourceHosts[j] EXCEPT ![n] = the_address]]
          /\ mainPc' = IF n + 1 < M THEN "map" ELSE "reduce"
          /\ mainI' = IF n + 1 < M THEN n + 1 ELSE 0
          /\ proc' = proc
     ELSE /\ proc' = "fatal"
          /\ UNCHANGED <<sourceHosts, mainPc, mainI>>
  /\ UNCHANGED <<client, M, R, tempdir, input, rows, rowIdx, scanPc, pending, ins,
                 err, taskM, fetched, reduceInput, reduceCalls>>

\* ---------------------------------------------------- scanning goroutine
\* The goroutine starts and rows.Next() is false at once: rows.Close().
ScanNone(n) ==
  /\ proc = "running" /\ scanPc[n] = "next" /\ ~HasNext(n)
  /\ scanPc' = [scanPc EXCEPT ![n] = "done"]
  /\ UNCHANGED <<client, M, R, proc, tempdir, mainPc, mainI, input, rows, rowIdx,
                 pending, ins, err, ret, taskM>>
  /\ UNCHANGED reduceVars

\* rows.Next() is true: rows.Scan, make(chan Pair), go inserter, and the
\* call of Map, up to its first send.
ScanNext(n) ==
  /\ proc = "running" /\ scanPc[n] = "next" /\ HasNext(n)
  /\ rowIdx' = [rowIdx EXCEPT ![n] = @ + 1]
  /\ ins' = [ins EXCEPT ![n] = Append(@, [pc |-> "recv", pair |-> NoPair])]
  /\ pending' = [pending EXCEPT ![n] = MapPairs(client, rows[n][rowIdx[n] + 1])]
  /\ scanPc' = [scanPc EXCEPT ![n] = "map"]
  /\ err' = [err EXCEPT ![n] = "nil"]
  /\ UNCHANGED <<client, M, R, proc, tempdir, mainPc, mainI, input, rows, ret, taskM>>
  /\ UNCHANGED reduceVars

\* rows.Scan fails: log.Fatalf.
ScanError(n) ==
  /\ proc = "running" /\ scanPc[n] = "next" /\ HasNext(n)
  /\ err' = [err EXCEPT ![n] = "error"]
  /\ proc' = "fatal"
  /\ UNCHANGED <<client, M, R, tempdir, mainPc, mainI, input, rows, rowIdx, scanPc,
                 pending, ins, ret, taskM>>
  /\ UNCHANGED reduceVars

\* createDatabase: an empty store under the bucket's name.
createDatabase(dir, f) == [g \in DOMAIN dir \cup {f} |-> IF g = f THEN <<>> ELSE dir[g]]

\* getDatabase up to the os.Stat: whether the inserter goes on to
\* createDatabase or to openDatabase.
StatOf(f) == IF Exists(f) THEN "insert" ELSE "create"

\* output <- pair inside Map: the channel is unbuffered, so the send
\* completes together with the receive of the row's inserter, which enters
\* InsertPair, computes the bucket and runs getDatabase up to its os.Stat.
MapSend(n) ==
  /\ proc = "running" /\ scanPc[n] = "map" /\ pending[n] # <<>> /\ R > 0
  /\ ins[n][rowIdx[n]].pc = "recv"
  /\ LET pair == Head(pending[n])
     IN ins' = [ins EXCEPT ![n][rowIdx[n]] =
                  [pc |-> StatOf(mapOutputFile(n, BucketOf(n, pair, R))),
                   pair |-> pair]]
  /\ pending' = [pending EXCEPT ![n] = Tail(@)]
  /\ UNCHANGED <<client, M, R, proc, tempdir, mainPc, mainI, input, rows, rowIdx,
                 scanPc, err, ret, taskM>>
  /\ UNCHANGED reduceVars

\* The same with R = 0: hash.Sum32() % uint32(task.R) is an integer divide
\* by zero, and the process panics.
InsertPanic(n) ==
  /\ proc = "running" /\ scanPc[n] = "map" /\ pending[n] # <<>> /\ R = 0
  /\ ins[n][rowIdx[n]].pc = "recv"
  /\ proc' = "panic"
  /\ UNCHANGED <<client, M, R, tempdir, mainPc, mainI>>
  /\ UNCHANGED mapVars
  /\ UNCHANGED reduceVars

\* MapClose with an error of Map ending the scanning goroutine.
MapCloseAbort(n) ==
  /\ proc = "running" /\ scanPc[n] = "map" /\ pending[n] = <<>>
  /\ err' = [err EXCEPT ![n] = MapResult(client)]
  /\ taskM' = [taskM EXCEPT ![n] = @ + 1]
  /\ scanPc' = [scanPc EXCEPT ![n] =
                  IF HasNext(n) /\ MapResult(client) = "nil" THEN "next" ELSE "done"]
  /\ ins' = [ins EXCEPT ![n][rowIdx[n]].pc = IF @ = "recv" THEN "done" ELSE @]
  /\ UNCHANGED <<client, M, R, proc, tempdir, mainPc, mainI, input, rows, rowIdx,
                 pending, ret>>
  /\ UNCHANGED reduceVars

\* Map returns: the deferred close(output), on which an inserter waiting
\* in its range loop ends; err = what Map returned (an error is only
\* logged); task.M++; and, when rows.Next() is then false, rows.Close() and
\* the end of the goroutine.
MapClose(n) ==
  /\ proc = "running" /\ scanPc[n] = "map" /\ pending[n] = <<>>
  /\ err' = [err EXCEPT ![n] = MapResult(client)]
  /\ taskM' = [taskM EXCEPT ![n] = @ + 1]
  /\ scanPc' = [scanPc EXCEPT ![n] = IF HasNext(n) THEN "next" ELSE "done"]
  /\ ins' = [ins EXCEPT ![n][rowIdx[n]].pc = IF @ = "recv" THEN "done" ELSE @]
  /\ UNCHANGED <<client, M, R, proc, tempdir, mainPc, mainI, input, rows, rowIdx,
                 pending, ret>>
  /\ UNCHANGED reduceVars

\* The output channel of the k-th row of map task n has been closed.
Closed(n, k) == k < rowIdx[n] \/ (k = rowIdx[n] /\ scanPc[n] # "map")

\* --------------------------------------------------- inserting goroutines
\* getDatabase found no file: createDatabase.
InsertCreate(n, k) ==
  /\ proc = "running" /\ ins[n][k].pc = "create"
  /\ tempdir' = createDatabase(tempdir, mapOutputFile(n, BucketOf(n, ins[n][k].pair, R)))
  /\ ins' = [ins EXCEPT ![n][k].pc = "insert"]
  /\ UNCHANGED <<client, M, R, proc, mainPc, mainI, input, rows, rowIdx, scanPc,
                 pending, err, ret, taskM>>
  /\ UNCHANGED reduceVars

\* The INSERT statement, db.Close, return nil, err = nil; the inserter then
\* waits for the next pair, or ends when the channel has been closed.
InsertExec(n, k) ==
  /\ proc = "running" /\ ins[n][k].pc = "insert"
  /\ LET f == mapOutputFile(n, BucketOf(n, ins[n][k].pair, R))
     IN tempdir' = [tempdir EXCEPT ![f] = Append(@, ins[n][k].pair)]
  /\ ins' = [ins EXCEPT ![n][k].pc = IF Closed(n, k) THEN "done" ELSE "recv"]
  /\ err' = [err EXCEPT ![n] = "nil"]
  /\ UNCHANGED <<client, M, R, proc, mainPc, mainI, input, rows, rowIdx, scanPc,
                 pending, ret, taskM>>
  /\ UNCHANGED reduceVars

\* ---------------------------------------------------- ReduceTask.Process
\* SourceURL with the map task number used as the bucket number, as in
\* createPaths' mapOutputFile(i, i).
SourceURLDiagonal(j, m) == makeURL(sourceHosts[j][m], mapOutputFile(m, m))

\* The URL of the m-th source of reduce task j.
SourceURL(j, m) == makeURL(sourceHosts[j][m], mapOutputFile(m, j))

Fetchable(url) == url[1] = the_address /\ Exists(url[2])

\* The merged input once all M sources are there; db.Close(); return nil.
Merged(srcs) == mergeDatabases([i \in 1..Len(srcs) |-> srcs[i].pairs])

\* mergeDatabases downloads the next source; after the last one the
\* sources are merged into the reduce input and Process returns nil.
ReduceFetch(j) ==
  /\ proc = "running" /\ mainPc = "reduce" /\ mainI = j /\ j < R
  /\ Len(fetched[j]) < M
  /\ LET url == SourceURL(j, Len(fetched[j]))
         got == Append(fetched[j], [name |-> url[2], pairs |-> tempdir[url[2]]])
     IN /\ Fetchable(url)
        /\ fetched' = [fetched EXCEPT ![j] = got]
        /\ IF Len(got) = M
           THEN /\ reduceInput' = [reduceInput EXCEPT ![j] = Merged(got)]
                /\ mainI' = j + 1
           ELSE UNCHANGED <<reduceInput, mainI>>
  /\ UNCHANGED <<client, M, R, proc, tempdir, mainPc, sourceHosts, reduceCalls>>
  /\ UNCHANGED mapVars

\* ReduceFetchFail with the failed source skipped: it counts as an empty
\* source and the task goes on.
ReduceFetchSkip(j) ==
  /\ proc = "running" /\ mainPc = "reduce" /\ mainI = j /\ j < R
  /\ Len(fetched[j]) < M
  /\ LET url == SourceURL(j, Len(fetched[j]))
         got == Append(fetched[j], [name |-> url[2], pairs |-> <<>>])
     IN /\ ~Fetchable(url)
        /\ fetched' = [fetched EXCEPT ![j] = got]
        /\ IF Len(got) = M
           THEN /\ reduceInput' = [reduceInput EXCEPT ![j] = Merged(got)]
                /\ mainI' = j + 1
           ELSE UNCHANGED <<reduceInput, mainI>>
  /\ UNCHANGED <<client, M, R, proc, tempdir, mainPc, sourceHosts, reduceCalls>>
  /\ UNCHANGED mapVars

\* The download fails: mergeDatabases returns the error, log.Fatalf.
ReduceFetchFail(j) ==
  /\ proc = "running" /\ mainPc = "reduce" /\ mainI = j /\ j < R
  /\ Len(fetched[j]) < M
  /\ ~Fetchable(SourceURL(j, Len(fetched[j])))
  /\ proc' = "fatal"
  /\ UNCHANGED <<client, M, R, tempdir, mainPc, mainI>>
  /\ UNCHANGED mapVars
  /\ UNCHANGED reduceVars

\* ReduceTask.Process with no map task: nothing to download.
ReduceNoSource(j) ==
  /\ proc = "running" /\ mainPc = "reduce" /\ mainI = j /\ j < R
  /\ M = 0
  /\ reduceInput' = [reduceInput EXCEPT ![j] = Merged(<<>>)]
  /\ mainI' = j + 1
  /\ UNCHANGED <<client, M, R, proc, tempdir, mainPc, sourceHosts, fetched, reduceCalls>>
  /\ UNCHANGED mapVars

\* main returns: the process ends, and with it every goroutine.
MainReturn ==
  /\ proc = "running" /\ mainPc = "reduce" /\ mainI = R
  /\ proc' = "exit"
  /\ UNCHANGED <<client, M, R, tempdir, mainPc, mainI>>
  /\ UNCHANGED mapVars
  /\ UNCHANGED reduceVars

Next ==
  \/ \E n \in MapIds : MapProcessStart(n)
  \/ \E n \in MapIds : MapProcessFail(n)
  \/ \E n \in MapIds : MapProcessReturn(n)
  \/ \E n \in MapIds : ScanNone(n)
  \/ \E n \in MapIds : ScanNext(n)
  \/ \E n \in MapIds : ScanError(n)
  \/ \E n \in MapIds : MapSend(n)
  \/ \E n \in MapIds : InsertPanic(n)
  \/ \E n \in MapIds : MapClose(n)
  \/ \E n \in MapIds : \E k \in 1..Len(ins[n]) : InsertCreate(n, k)
  \/ \E n \in MapIds : \E k \in 1..Len(ins[n]) : InsertExec(n, k)
  \/ \E j \in ReduceIds : ReduceFetch(j)
  \/ \E j \in ReduceIds : ReduceFetchFail(j)
  \/ \E j \in ReduceIds : ReduceNoSource(j)
  \/ MainReturn

Spec == Init /\ [][Next]_vars

\* ------------------------------------------------------------ properties
RECURSIVE BagOfSeq(_)
BagOfSeq(s) ==
  IF s = <<>> THEN EmptyBag ELSE SetToBag({Head(s)}) (+) BagOfSeq(Tail(s))

\* The scanning goroutine of map task n and all its inserters have ended.
MapWorkDone(n) ==
  /\ scanPc[n] = "done"
  /\ \A k \in 1..Len(ins[n]) : ins[n][k].pc = "done"

\* The pairs Map has been given to send for the rows scanned so far.
RECURSIVE EmittedUpTo(_, _)
EmittedUpTo(n, i) ==
  IF i = 0 THEN <<>> ELSE EmittedUpTo(n, i - 1) \o MapPairs(client, rows[n][i])

Emitted(n) == EmittedUpTo(n, rowIdx[n])

\* The bucket files of map task n that exist, whatever their index.
OutputFiles(n) == {f \in DOMAIN tempdir : f[1] = "map_output" /\ f[2] = n}
AllOutputFiles == {f \in DOMAIN tempdir : f[1] = "map_output"}

RECURSIVE BagOfFiles(_)
BagOfFiles(fs) ==
  IF fs = {} THEN EmptyBag
  ELSE LET f == CHOOSE g \in fs : TRUE
       IN BagOfSeq(tempdir[f]) (+) BagOfFiles(fs \ {f})

\* ReduceTask.Process has returned nil for reduce task j.
ReduceDone(j) == mainPc = "reduce" /\ j < mainI

\* The reduce output store of reduce task j.
Output(j) ==
  IF Exists(reduceOutputFile(j)) THEN tempdir[reduceOutputFile(j)] ELSE <<>>

\* C1: when MapTask.Process has returned nil, the scan of the task's input
\* has finished and every inserting goroutine it led to has ended.
C1_ProcessBlocks ==
  \A n \in MapIds : ret[n] = "nil" => MapWorkDone(n)

\* C2: once the work of map task n is finished, every pair the mapper
\* emitted is stored exactly once, in bucket file (n, partition(Key, R)):
\* the pairs over n's bucket files are the emitted pairs, as multisets.
C2_ShuffleComplete ==
  \A n \in MapIds :
    (input[n] \in {"fresh", "stale"} /\ MapWorkDone(n)) =>
      /\ BagOfFiles(OutputFiles(n)) = BagOfSeq(Emitted(n))
      /\ \A f \in OutputFiles(n) : \A i \in 1..Len(tempdir[f]) :
           f[3] = partition(tempdir[f][i].Key, R)

\* C3: every bucket index InsertPair computes lies in 0..R-1: no bucket
\* file with an index outside 0..R-1 exists, and no inserter is about to
\* create or write one.
C3_PartitionCoverage ==
  /\ \A f \in AllOutputFiles : f[3] \in 0..(R - 1)
  /\ \A n \in MapIds : \A k \in 1..Len(ins[n]) :
       ins[n][k].pc \in {"create", "insert"} =>
         BucketOf(n, ins[n][k].pair, R) \in 0..(R - 1)

C3_Witness ==
  \E f \in AllOutputFiles : R = 2 /\ f[3] = 1 /\ tempdir[f] # <<>>

\* C4: two stored pairs with the same key are in bucket files of the same
\* bucket index, whichever map tasks wrote them.
C4_PartitionDeterminism ==
  \A f \in AllOutputFiles, g \in AllOutputFiles :
    \A i \in 1..Len(tempdir[f]), j \in 1..Len(tempdir[g]) :
      tempdir[f][i].Key = tempdir[g][j].Key => f[3] = g[3]

C4_Witness ==
  /\ R = 2
  /\ \E f \in AllOutputFiles, g \in AllOutputFiles :
       /\ f[2] # g[2]
       /\ \E i \in 1..Len(tempdir[f]), j \in 1..Len(tempdir[g]) :
            tempdir[f][i].Key = tempdir[g][j].Key

\* The number of pairs of s whose key is key.
RECURSIVE Occurrences(_, _)
Occurrences(s, key) ==
  IF s = <<>> THEN 0
  ELSE (IF Head(s).Key = key THEN 1 ELSE 0) + Occurrences(Tail(s), key)

ReduceCallsFor(j, key) ==
  {c \in 1..Len(reduceCalls) : reduceCalls[c].task = j /\ reduceCalls[c].key = key}

\* C5: when ReduceTask.Process has completed for reduce task j, Reduce has
\* been invoked exactly once for every distinct key of the merged input,
\* with as many values as the key has occurrences, and the pairs those
\* invocations emitted are in the task's output store.
C5_GroupingCorrect ==
  \A j \in ReduceIds :
    ReduceDone(j) =>
      \A i \in 1..Len(reduceInput[j]) :
        LET key == reduceInput[j][i].Key
        IN /\ Cardinality(ReduceCallsFor(j, key)) = 1
           /\ \A c \in ReduceCallsFor(j, key) :
                /\ Len(reduceCalls[c].values) = Occurrences(reduceInput[j], key)
                /\ \A q \in 1..Len(reduceCalls[c].emitted) :
                     \E o \in 1..Len(Output(j)) :
                       Output(j)[o] = reduceCalls[c].emitted[q]

SortedByKey(s) ==
  \A i \in 1..(Len(s) - 1) : ~BytesLess(s[i + 1].Key, s[i].Key)

RECURSIVE BagOfSources(_)
BagOfSources(srcs) ==
  IF srcs = <<>> THEN EmptyBag
  ELSE BagOfSeq(Head(srcs).pairs) (+) BagOfSources(Tail(srcs))

RECURSIVE LenOfSources(_)
LenOfSources(srcs) ==
  IF srcs = <<>> THEN 0 ELSE Len(Head(srcs).pairs) + LenOfSources(Tail(srcs))

\* C6: the merged input of reduce task j is built from the M bucket files
\* (m, j), m in 0..M-1, as downloaded; it has as many pairs as these
\* sources together, is sorted by key, and is their multiset union.
C6_MergeTotality ==
  \A j \in ReduceIds :
    ReduceDone(j) =>
      /\ Len(fetched[j]) = M
      /\ \A m \in MapIds : fetched[j][m + 1].name = mapOutputFile(m, j)
      /\ Len(reduceInput[j]) = LenOfSources(fetched[j])
      /\ SortedByKey(reduceInput[j])
      /\ BagOfSeq(reduceInput[j]) = BagOfSources(fetched[j])

C6_Witness ==
  \E j \in ReduceIds :
    /\ ReduceDone(j)
    /\ M = 2
    /\ Len(reduceInput[j]) = 4
    /\ ~SortedByKey(fetched[j][1].pairs \o fetched[j][2].pairs)
    /\ \E a \in 1..Len(fetched[j][1].pairs), b \in 1..Len(fetched[j][2].pairs) :
         fetched[j][1].pairs[a].Key = fetched[j][2].pairs[b].Key

W_the == <<116, 104, 101>>
W_cat == <<99, 97, 116>>
W_sat == <<115, 97, 116>>
Two == <<50>>    \* the string "2"

WordCountRun ==
  /\ client = "Client"
  /\ M = 1 /\ R = 1
  /\ tempdir[mapSourceFile(0)] = <<T_wordcount>>
  /\ input[0] = "fresh"

\* C7: the whole run over the single input value
\* "the cat sat. The CAT sat!" with R = 1 ends with the reduce output
\* holding exactly (the,2), (cat,2), (sat,2).
C7_WordCountRoundTrip ==
  (WordCountRun /\ proc = "exit") =>
    BagOfSeq(Output(0)) =
      SetToBag({[Key |-> W_the, Value |-> Two],
                [Key |-> W_cat, Value |-> Two],
                [Key |-> W_sat, Value |-> Two]})

\* C8: after map task n has completed, all its R bucket files (n, 0) ..
\* (n, R-1) exist, the empty ones included.
C8_AllBucketsExist ==
  \A n \in MapIds :
    (ret[n] = "nil" /\ MapWorkDone(n)) =>
      \A r \in ReduceIds : Exists(mapOutputFile(n, r))

\* No pair emitted by any map task belongs to bucket j.
EmptyBucket(j) ==
  \A n \in MapIds : \A i \in 1..Len(Emitted(n)) :
    partition(Emitted(n)[i].Key, R) # j

\* C9: the fetch/merge step of a reduce task whose bucket received no pair
\* from any map task does not fail: with all map work finished, the process
\* is never stopped by ReduceTask.Process of such a task.
C9_EmptyBucketCompletes ==
  ~ /\ proc = "fatal"
    /\ mainPc = "reduce" /\ mainI < R
    /\ \A n \in MapIds : ret[n] = "nil" /\ MapWorkDone(n)
    /\ EmptyBucket(mainI)

\* C10: a map task whose source shard holds zero pairs never invokes the
\* mapper, has no inserter and no bucket file, and its Process returns nil.
C10_EmptyShard ==
  \A n \in MapIds :
    (input[n] = "fresh" /\ tempdir[mapSourceFile(n)] = <<>>) =>
      /\ rowIdx[n] = 0
      /\ ins[n] = <<>>
      /\ OutputFiles(n) = {}
      /\ ret[n] \in {"none", "nil"}

C10_Witness ==
  \E n \in MapIds :
    /\ input[n] = "fresh" /\ tempdir[mapSourceFile(n)] = <<>>
    /\ ret[n] = "nil" /\ scanPc[n] = "done"
    /\ \E o \in MapIds : o # n /\ rowIdx[o] > 0

\* The next source of reduce task j, which main is processing, cannot be
\* fetched.
Unfetchable(j) ==
  /\ mainPc = "reduce" /\ mainI = j /\ j < R
  /\ Len(fetched[j]) < M
  /\ ~Fetchable(SourceURL(j, Len(fetched[j])))

\* C11: a source of reduce task j that cannot be fetched is never skipped:
\* no step taken while it cannot be fetched adds a source to the task,
\* builds its merged input, completes the task or lets main return.
C11_FetchFailureFatal ==
  [][\A j \in ReduceIds :
       Unfetchable(j) =>
         /\ fetched'[j] = fetched[j]
         /\ reduceInput'[j] = reduceInput[j]
         /\ mainI' = mainI
         /\ proc' # "exit"]_vars

C11_Witness ==
  /\ proc = "fatal"
  /\ \A n \in MapIds : ret[n] = "nil" /\ MapWorkDone(n)
  /\ \E j \in ReduceIds : Unfetchable(j) /\ Len(fetched[j]) >= 1

\* C12: when the download of the source shard of map task n has failed,
\* or its local input cannot be opened or read, Process returns an error
\* and no input pair of the task is passed to Map.
C12_MapInputFailurePropagates ==
  \A n \in MapIds :
    input[n] \in {"stale", "unreadable"} =>
      /\ ret[n] \in {"none", "error"}
      /\ rowIdx[n] = 0

C14_ConfigRejected ==
  (M <= 0 \/ R <= 0) =>
    /\ \A n \in MapIds : input[n] = "none"
    /\ \A j \in ReduceIds : ~ReduceDone(j)
    /\ proc \notin {"panic", "exit"}

\* C15: every map task keeps, in every reachable state, the M it was
\* constructed with (R is never assigned after construction).
C15_TaskCountsFixed ==
  \A n \in MapIds : taskM[n] = M

\* The k-th inserter of map task n is inside InsertPair.
InInsertPair(n, k) == ins[n][k].pc \in {"create", "insert"}

\* C16: two inserters of the same map task are never inside InsertPair at
\* the same time for the same bucket file.
C16_SingleWriter ==
  \A n \in MapIds : \A k1 \in 1..Len(ins[n]), k2 \in 1..Len(ins[n]) :
    (k1 < k2 /\ InInsertPair(n, k1) /\ InInsertPair(n, k2)) =>
      BucketOf(n, ins[n][k1].pair, R) # BucketOf(n, ins[n][k2].pair, R)

\* What bucket file f holds, or that it does not exist.
FileState(dir, f) == IF f \in DOMAIN dir THEN <<"file", dir[f]>> ELSE <<"absent">>

\* C17: no bucket file of a map task is created or written once its
\* Process has returned to main, and none at all once main has reached
\* the reduce tasks.
C17_PhaseOrdering ==
  [][/\ \A n \in MapIds : ret[n] = "nil" =>
          \A f \in OutputFiles(n)' :
            FileState(tempdir', f) = FileState(tempdir, f)
     /\ mainPc = "reduce" => tempdir' = tempdir]_vars

\* The values the merged input of a reduce task holds for a key, in order.
RECURSIVE ValuesOf(_, _)
ValuesOf(s, key) ==
  IF s = <<>> THEN <<>>
  ELSE (IF Head(s).Key = key THEN <<Head(s).Value>> ELSE <<>>)
         \o ValuesOf(Tail(s), key)

Malformed(j, key) == ~ClientReduce(key, ValuesOf(reduceInput[j], key))[1]

\* C18: when ReduceTask.Process has completed for reduce task j and the
\* values of some key of its merged input cannot be parsed as integers,
\* Reduce has been invoked exactly once for that key and emitted no pair,
\* and Reduce has also been invoked for every other key of the task.
C18_MalformedValueIsLocal ==
  \A j \in ReduceIds :
    ReduceDone(j) =>
      \A i \in 1..Len(reduceInput[j]) :
        Malformed(j, reduceInput[j][i].Key) =>
          /\ \A c \in ReduceCallsFor(j, reduceInput[j][i].Key) :
               reduceCalls[c].emitted = <<>>
          /\ \A i2 \in 1..Len(reduceInput[j]) :
               Cardinality(ReduceCallsFor(j, reduceInput[j][i2].Key)) = 1

\* C19: with the Client mapper and R > 0, a run never ends with a map
\* task's pipeline unfinished: when the process has exited, every map task that started
\* scanning has passed every row to Map exactly once, and its scanning
\* goroutine and all its inserter goroutines have terminated.
C19_PipelineTerminates ==
  (client = "Client" /\ R > 0 /\ proc = "exit") =>
    \A n \in MapIds :
      input[n] \in {"fresh", "stale"} =>
        /\ rowIdx[n] = Len(rows[n])
        /\ Len(ins[n]) = Len(rows[n])
        /\ MapWorkDone(n)

\* C20: whenever opening the input store and issuing the query succeeded,
\* the value MapTask.Process returned is nil.
C20_ReturnIndependent ==
  \A n \in MapIds :
    (input[n] \in {"fresh", "stale"} /\ ret[n] # "none") => ret[n] = "nil"

====
